---- MODULE Spec2Model ----
\* A model of three independent astronomy helper scripts:
\*   bp_lookup.py  - get_bp_mag: identifier -> Gaia DR3 BP magnitude (or None)
\*   const_add.py  - add 100 to the primary array of a FITS file
\*   w1m_noise.py  - get_aperture_noise: piecewise selection of instrument constants
\* Strings are sequences of one-character strings, so that "in", split, replace
\* and strip are computed character by character as Python computes them.
\* Magnitudes and percentages are fixed-point integers in thousandths
\* (14.0 is 14000, 24.999 is 24999).
EXTENDS Integers, Sequences, FiniteSets, TLC

VARIABLES
    \* ---- bp_lookup.py ----
    target,          \* the argument of get_bp_mag
    pc,              \* position of the call inside get_bp_mag
    stdout,          \* sys.stdout
    caller_stdout,   \* sys.stdout as it was when get_bp_mag was called
    old_stdout,      \* local of suppress_stdout
    simbad_result,   \* the table returned by custom_simbad.query_object
    gaia_id,         \* local gaia_id
    simbad_queries,  \* names sent to the name-resolution service, in order
    gaia_queries,    \* source ids of the queries sent to the catalog service
    failure,         \* the step that raised, "none" if no step raised
    escaped,         \* TRUE when an exception left get_bp_mag
    ret,             \* value returned by get_bp_mag
    \* ---- const_add.py ----
    img_pc,          \* position of the script
    file_data,       \* primary array stored in median.fits
    file_header,     \* primary header stored in median.fits
    data,            \* variable data
    header,          \* variable header
    out_file,        \* contents of const_added.fits
    \* ---- w1m_noise.py ----
    noise_pc,        \* position of the call of get_aperture_noise
    moon_percentage, \* argument, thousandths of a percent
    bp_mag,          \* argument, thousandths of a magnitude
    selected         \* aperture_size, zp and sky_background chosen by the call

resolver_vars == <<target, pc, stdout, caller_stdout, old_stdout, simbad_result,
                   gaia_id, simbad_queries, gaia_queries, failure, escaped, ret>>
image_vars == <<img_pc, file_data, file_header, data, header, out_file>>
noise_vars == <<noise_pc, moon_percentage, bp_mag, selected>>
vars == <<resolver_vars, image_vars, noise_vars>>

-----------------------------------------------------------------------------
\* Bounds of the model

\* identifiers are built from at most this many tokens
MaxTargetTokens == 3
\* the 'ids' field of a name-resolution answer is built from at most this many tokens
MaxIdsTokens == 3
\* the catalog answers with at most this many rows
MaxRows == 1
\* images have at most this many rows and at most this many columns
MaxDim == 2
\* inputs of the noise estimator lie within this many thousandths of a threshold
Delta == 2

-----------------------------------------------------------------------------
\* Python values

NoneVal == [tag |-> "None"]
Str(s) == [tag |-> "str", val |-> s]
Num(n) == [tag |-> "float", val |-> n]

\* the literal "Gaia DR3" of bp_lookup.py
Marker == <<"G", "a", "i", "a", " ", "D", "R", "3">>

Whitespace == {" ", "\n", "\t"}

RECURSIVE Flatten(_)
Flatten(ts) == IF ts = <<>> THEN <<>> ELSE Head(ts) \o Flatten(Tail(ts))

SeqsUpTo(S, n) == UNION {[1..k -> S] : k \in 0..n}

\* str.find(sub, start): the least index >= from at which sub occurs, 0 if none
Find(s, sub, from) ==
    LET hits == {i \in from..(Len(s) - Len(sub) + 1) : SubSeq(s, i, i + Len(sub) - 1) = sub}
    IN  IF hits = {} THEN 0 ELSE CHOOSE i \in hits : \A j \in hits : i <= j

\* sub in s
Contains(s, sub) == Find(s, sub, 1) # 0

\* s.split(sep): cut at every occurrence of sep, scanning from the left
RECURSIVE Split(_, _)
Split(s, sep) ==
    LET i == Find(s, sep, 1)
    IN  IF i = 0 THEN <<s>>
        ELSE <<SubSeq(s, 1, i - 1)>> \o Split(SubSeq(s, i + Len(sep), Len(s)), sep)

\* s.replace(c, "") for a one-character c
Remove(s, c) == SelectSeq(s, LAMBDA x : x # c)

\* s.strip()
Strip(s) ==
    LET keep == {i \in 1..Len(s) : s[i] \notin Whitespace}
    IN  IF keep = {} THEN <<>>
        ELSE SubSeq(s, CHOOSE i \in keep : \A j \in keep : i <= j,
                       CHOOSE i \in keep : \A j \in keep : i >= j)

\* str(x) inside the f-string of the query
Format(v) == IF v = NoneVal THEN <<"N", "o", "n", "e">> ELSE v.val

-----------------------------------------------------------------------------
\* bp_lookup.py

Streams == {"console", "logfile"}
DevNull == "devnull"

TargetTokens == {Marker, <<" ">>, <<"1">>}
IdsTokens == {Marker, <<"|">>, <<"-">>, <<"\n">>, <<" ">>, <<"1">>}
Targets == {Flatten(ts) : ts \in SeqsUpTo(TargetTokens, MaxTargetTokens)}
IdsFields == {Flatten(ts) : ts \in SeqsUpTo(IdsTokens, MaxIdsTokens)}
\* phot_bp_mean_mag values the catalog may hold, thousandths of a magnitude
Mags == {12000, 16500}
Results == SeqsUpTo(Mags, MaxRows)

\* the exception class each failing step raises
ExceptionOf(step) ==
    CASE step = "query_object"      -> "ConnectionError"
      [] step = "ids_missing"       -> "KeyError"
      [] step = "split_index"       -> "IndexError"
      [] step = "open_devnull"      -> "OSError"
      [] step = "launch_job_async"  -> "HTTPError"
      [] step = "get_results"       -> "HTTPError"
      [] step = "column_missing"    -> "KeyError"
      [] step = "zero_rows"         -> "IndexError"

\* except Exception: every class raised above derives from Exception
CatchesOnlyLookup(cls) == cls \in {"KeyError", "IndexError"}
Catches(cls) == cls \in {"ConnectionError", "KeyError", "IndexError", "OSError", "HTTPError"}

\* the condition of line 29
SimbadAlways(t) == TRUE
NeedsSimbad(t) == ~Contains(t, Marker)

\* s.split("Gaia DR3")[1].strip(); IndexError when there is no second part
NoStripExtract(s) ==
    LET parts == Split(s, Marker)
    IN  IF Len(parts) < 2 THEN [raised |-> TRUE] ELSE [raised |-> FALSE, val |-> parts[2]]
ExtractId(s) ==
    LET parts == Split(s, Marker)
    IN  IF Len(parts) < 2 THEN [raised |-> TRUE]
        ELSE [raised |-> FALSE, val |-> Strip(parts[2])]

\* str(result['ids']).replace("\n", "").replace("-", "").split("|")
ParseIds(field) == Split(Remove(Remove(field, "\n"), "-"), <<"|">>)

\* the loop of lines 41-47: the first entry containing the marker, 0 if none
FirstGaiaEntry(ids) ==
    LET hits == {i \in 1..Len(ids) : Contains(ids[i], Marker)}
    IN  IF hits = {} THEN 0 ELSE CHOOSE i \in hits : \A j \in hits : i <= j

\* sys.stdout = devnull
KeepStream(cur) == cur
Redirected(cur) == DevNull

\* finally: sys.stdout = old_stdout
LeaveStream(old, cur) == cur
Restored(old, cur) == old

\* the except clause of line 64, or the exception leaving the function
Raise(step) ==
    /\ failure' = step
    /\ pc' = "done"
    /\ IF Catches(ExceptionOf(step))
       THEN ret' = NoneVal /\ escaped' = FALSE
       ELSE ret' = ret /\ escaped' = TRUE

ResolverInit ==
    /\ target \in Targets
    /\ pc = "call"
    /\ caller_stdout \in Streams
    /\ stdout = caller_stdout
    /\ old_stdout = "unset"
    /\ simbad_result = [tag |-> "unset"]
    /\ gaia_id = [tag |-> "unset"]
    /\ simbad_queries = <<>>
    /\ gaia_queries = <<>>
    /\ failure = "none"
    /\ escaped = FALSE
    /\ ret = [tag |-> "pending"]

\* lines 29-37: the marker is absent, query_object(target) is called
StartSimbad ==
    /\ pc = "call"
    /\ NeedsSimbad(target)
    /\ pc' = "query_object"
    /\ simbad_queries' = Append(simbad_queries, target)
    /\ UNCHANGED <<target, stdout, caller_stdout, old_stdout, simbad_result, gaia_id,
                   gaia_queries, failure, escaped, ret>>

\* lines 48-50: the marker is present, the id is cut out of the target
FastPath ==
    /\ pc = "call"
    /\ ~NeedsSimbad(target)
    /\ LET x == ExtractId(target)
       IN  IF x.raised
           THEN /\ Raise("split_index")
                /\ UNCHANGED gaia_id
           ELSE /\ gaia_id' = Str(x.val)
                /\ pc' = "with"
                /\ UNCHANGED <<failure, escaped, ret>>
    /\ UNCHANGED <<target, stdout, caller_stdout, old_stdout, simbad_result,
                   simbad_queries, gaia_queries>>

\* line 37: query_object raises
SimbadRaises ==
    /\ pc = "query_object"
    /\ Raise("query_object")
    /\ UNCHANGED <<target, stdout, caller_stdout, old_stdout, simbad_result, gaia_id,
                   simbad_queries, gaia_queries>>

\* lines 37-38: query_object returns a table without an 'ids' column
SimbadNoIds ==
    /\ pc = "query_object"
    /\ simbad_result' = [tag |-> "table", has_ids |-> FALSE]
    /\ Raise("ids_missing")
    /\ UNCHANGED <<target, stdout, caller_stdout, old_stdout, gaia_id,
                   simbad_queries, gaia_queries>>

\* lines 37-47: query_object returns, the ids are parsed and scanned
SimbadReturns ==
    /\ pc = "query_object"
    /\ \E field \in IdsFields :
         /\ simbad_result' = [tag |-> "table", has_ids |-> TRUE, ids |-> field]
         /\ LET ids == ParseIds(field)
                k == FirstGaiaEntry(ids)
            IN  IF k = 0
                THEN /\ gaia_id' = NoneVal
                     /\ pc' = "with"
                     /\ UNCHANGED <<failure, escaped, ret>>
                ELSE LET x == ExtractId(ids[k])
                     IN  IF x.raised
                         THEN /\ Raise("split_index")
                              /\ UNCHANGED gaia_id
                         ELSE /\ gaia_id' = Str(x.val)
                              /\ pc' = "with"
                              /\ UNCHANGED <<failure, escaped, ret>>
    /\ UNCHANGED <<target, stdout, caller_stdout, old_stdout, simbad_queries, gaia_queries>>

\* lines 59, 15: open(os.devnull) fails
OpenDevnullFails ==
    /\ pc = "with"
    /\ Raise("open_devnull")
    /\ UNCHANGED <<target, stdout, caller_stdout, old_stdout, simbad_result, gaia_id,
                   simbad_queries, gaia_queries>>

\* lines 53-60, 15-19: the query is built, output is redirected, the job is launched
LaunchJob ==
    /\ pc = "with"
    /\ old_stdout' = stdout
    /\ stdout' = Redirected(stdout)
    /\ gaia_queries' = Append(gaia_queries, Format(gaia_id))
    /\ pc' = "launch_job_async"
    /\ UNCHANGED <<target, caller_stdout, simbad_result, gaia_id, simbad_queries,
                   failure, escaped, ret>>

\* line 60 raises; lines 20-21 run on the way out
LaunchRaises ==
    /\ pc = "launch_job_async"
    /\ stdout' = Restored(old_stdout, stdout)
    /\ Raise("launch_job_async")
    /\ UNCHANGED <<target, caller_stdout, old_stdout, simbad_result, gaia_id,
                   simbad_queries, gaia_queries>>

\* line 60 returns the job
LaunchReturns ==
    /\ pc = "launch_job_async"
    /\ pc' = "get_results"
    /\ UNCHANGED <<target, stdout, caller_stdout, old_stdout, simbad_result, gaia_id,
                   simbad_queries, gaia_queries, failure, escaped, ret>>

\* line 61 raises; lines 20-21 run on the way out
ResultsRaises ==
    /\ pc = "get_results"
    /\ stdout' = Restored(old_stdout, stdout)
    /\ Raise("get_results")
    /\ UNCHANGED <<target, caller_stdout, old_stdout, simbad_result, gaia_id,
                   simbad_queries, gaia_queries>>

\* lines 61-63 with lines 20-21: the table comes back, output is restored,
\* the first phot_bp_mean_mag is returned
ResultsReturn ==
    /\ pc = "get_results"
    /\ stdout' = Restored(old_stdout, stdout)
    /\ \E has_column \in BOOLEAN, rows \in Results :
         IF ~has_column THEN Raise("column_missing")
         ELSE IF rows = <<>> THEN Raise("zero_rows")
         ELSE /\ ret' = Num(rows[1])
              /\ pc' = "done"
              /\ UNCHANGED <<failure, escaped>>
    /\ UNCHANGED <<target, caller_stdout, old_stdout, simbad_result, gaia_id,
                   simbad_queries, gaia_queries>>

ResolverIdle ==
    /\ target = <<>>
    /\ pc = "idle"
    /\ caller_stdout = "console"
    /\ stdout = "console"
    /\ old_stdout = "unset"
    /\ simbad_result = [tag |-> "unset"]
    /\ gaia_id = [tag |-> "unset"]
    /\ simbad_queries = <<>>
    /\ gaia_queries = <<>>
    /\ failure = "none"
    /\ escaped = FALSE
    /\ ret = [tag |-> "pending"]

-----------------------------------------------------------------------------
\* const_add.py

\* BITPIX of the primary array: 8 is uint8, 16 is int16, -64 is float64
BitpixValues == {8, 16, -64}

\* the largest value of the element type (for float64: the largest element the model draws)
MaxOf(bitpix) == CASE bitpix = 8 -> 255 [] bitpix = 16 -> 32767 [] bitpix = -64 -> 32767

\* elements the stored array may hold: zero, and values within 100 of the maximum
Elements(bitpix) == {0, MaxOf(bitpix) - 100, MaxOf(bitpix) - 99}

\* x + k in the element type of the array: fixed-width integers wrap around
AddInType(bitpix, x, k) ==
    CASE bitpix = 8   -> (x + k) % 256
      [] bitpix = 16  -> ((x + k + 32768) % 65536) - 32768
      [] bitpix = -64 -> x + k

Shape(a) == <<Len(a), IF Len(a) = 0 THEN 0 ELSE Len(a[1])>>

Images(bitpix) ==
    UNION {[1..r -> [1..c -> Elements(bitpix)]] : r \in 1..MaxDim, c \in 1..MaxDim}

ImageInit ==
    /\ img_pc = "open"
    /\ \E bitpix \in BitpixValues :
         /\ file_data \in Images(bitpix)
         /\ \E object \in {"M31", "NGC 1"} :
              file_header = [BITPIX |-> bitpix, NAXIS1 |-> Shape(file_data)[2],
                             NAXIS2 |-> Shape(file_data)[1], OBJECT |-> object]
    /\ data = <<>>
    /\ header = [tag |-> "unset"]
    /\ out_file = [tag |-> "absent"]

\* lines 7-9: the file is opened, data and header are taken from the primary HDU
OpenFits ==
    /\ img_pc = "open"
    /\ data' = file_data
    /\ header' = file_header
    /\ img_pc' = "add"
    /\ UNCHANGED <<file_data, file_header, out_file>>

\* line 12: data += 100, in place, in the element type of the array
AddConstant ==
    /\ img_pc = "add"
    /\ data' = [i \in 1..Len(data) |->
                  [j \in 1..Len(data[i]) |-> AddInType(header.BITPIX, data[i][j], 100)]]
    /\ img_pc' = "write"
    /\ UNCHANGED <<file_data, file_header, header, out_file>>

\* lines 15-17: PrimaryHDU(data, header=header).writeto(output_path, overwrite=True)
WriteFits ==
    /\ img_pc = "write"
    /\ out_file' = [tag |-> "fits", data |-> data, header |-> header]
    /\ img_pc' = "written"
    /\ UNCHANGED <<file_data, file_header, data, header>>

ImageIdle ==
    /\ img_pc = "idle"
    /\ file_data = <<>>
    /\ file_header = [tag |-> "unset"]
    /\ data = <<>>
    /\ header = [tag |-> "unset"]
    /\ out_file = [tag |-> "absent"]

-----------------------------------------------------------------------------
\* w1m_noise.py

low_sky_background == 16
med_sky_background == 100
high_sky_background == 300

\* zero-points in thousandths of a magnitude: 24.3, 24 and 23.7
twenty_px_zp == 24300
ten_px_zp == 24000
five_px_zp == 23700

\* lines 25-33
ApertureClosedUpper(mag) ==
    IF mag <= 14000 THEN [aperture_size |-> 20, zp |-> twenty_px_zp]
    ELSE IF mag <= 18000 THEN [aperture_size |-> 10, zp |-> ten_px_zp]
    ELSE [aperture_size |-> 5, zp |-> five_px_zp]
Aperture(mag) ==
    IF mag < 14000 THEN [aperture_size |-> 20, zp |-> twenty_px_zp]
    ELSE IF mag < 18000 THEN [aperture_size |-> 10, zp |-> ten_px_zp]
    ELSE [aperture_size |-> 5, zp |-> five_px_zp]

\* lines 35-40
SkyClosedUpper(moon) ==
    IF moon <= 25000 THEN low_sky_background
    ELSE IF moon <= 75000 THEN med_sky_background
    ELSE high_sky_background
SkyBackground(moon) ==
    IF moon < 25000 THEN low_sky_background
    ELSE IF moon < 75000 THEN med_sky_background
    ELSE high_sky_background

Near(x) == {x + d : d \in (0 - Delta)..Delta}
MoonInputs == {0, 50000, 100000} \cup Near(25000) \cup Near(75000)
MagInputs == {8000, 16000, 21000} \cup Near(14000) \cup Near(18000)

NoiseInit ==
    /\ noise_pc = "call"
    /\ moon_percentage \in MoonInputs
    /\ bp_mag \in MagInputs
    /\ selected = [tag |-> "unset"]

\* lines 25-40: the two selections of get_aperture_noise (the floating-point
\* noise budget of lines 42-54, computed from them, is not represented)
get_aperture_noise ==
    /\ noise_pc = "call"
    /\ selected' = [aperture_size  |-> Aperture(bp_mag).aperture_size,
                    zp             |-> Aperture(bp_mag).zp,
                    sky_background |-> SkyBackground(moon_percentage)]
    /\ noise_pc' = "done"
    /\ UNCHANGED <<moon_percentage, bp_mag>>

NoiseIdle ==
    /\ noise_pc = "idle"
    /\ moon_percentage = 0
    /\ bp_mag = 0
    /\ selected = [tag |-> "unset"]

-----------------------------------------------------------------------------
\* One specification per script: the scripts share nothing

Init == ResolverInit /\ ImageIdle /\ NoiseIdle
Next ==
    \/ StartSimbad /\ UNCHANGED <<image_vars, noise_vars>>
    \/ FastPath /\ UNCHANGED <<image_vars, noise_vars>>
    \/ SimbadRaises /\ UNCHANGED <<image_vars, noise_vars>>
    \/ SimbadNoIds /\ UNCHANGED <<image_vars, noise_vars>>
    \/ SimbadReturns /\ UNCHANGED <<image_vars, noise_vars>>
    \/ OpenDevnullFails /\ UNCHANGED <<image_vars, noise_vars>>
    \/ LaunchJob /\ UNCHANGED <<image_vars, noise_vars>>
    \/ LaunchRaises /\ UNCHANGED <<image_vars, noise_vars>>
    \/ LaunchReturns /\ UNCHANGED <<image_vars, noise_vars>>
    \/ ResultsRaises /\ UNCHANGED <<image_vars, noise_vars>>
    \/ ResultsReturn /\ UNCHANGED <<image_vars, noise_vars>>
Spec == Init /\ [][Next]_vars

InitImage == ImageInit /\ ResolverIdle /\ NoiseIdle
NextImage ==
    \/ OpenFits /\ UNCHANGED <<resolver_vars, noise_vars>>
    \/ AddConstant /\ UNCHANGED <<resolver_vars, noise_vars>>
    \/ WriteFits /\ UNCHANGED <<resolver_vars, noise_vars>>
SpecImage == InitImage /\ [][NextImage]_vars

InitNoise == NoiseInit /\ ResolverIdle /\ ImageIdle
NextNoise ==
    \/ get_aperture_noise /\ UNCHANGED <<resolver_vars, image_vars>>
SpecNoise == InitNoise /\ [][NextNoise]_vars

-----------------------------------------------------------------------------
\* Properties of get_bp_mag (checked under Spec)

\* the scan of lines 41-47 ran and found no entry containing the marker
ScanFoundNothing ==
    /\ ~Contains(target, Marker)
    /\ simbad_result.tag = "table"
    /\ simbad_result.has_ids
    /\ \A k \in 1..Len(ParseIds(simbad_result.ids)) :
         ~Contains(ParseIds(simbad_result.ids)[k], Marker)

\* C1: no exception leaves get_bp_mag, and whenever a step failed (the
\* name-resolution query, the 'ids' lookup, the split, opening the sink, the
\* catalog job, the column lookup, the empty result) the call returns None.
C1_NoExceptionEscapes ==
    /\ ~escaped
    /\ (failure # "none" => pc = "done" /\ ret = NoneVal)

C1_Witness == pc = "done" /\ failure = "zero_rows" /\ ret = NoneVal /\ ~escaped

\* the text after the first occurrence of the marker, to the end of the identifier
RemainderAfterMarker(s) == SubSeq(s, Find(s, Marker, 1) + Len(Marker), Len(s))

\* the text between the first occurrence of the marker and the next one
\* (the end of the identifier when there is no next one)
UpToNextMarker(s) ==
    LET from == Find(s, Marker, 1) + Len(Marker)
        nxt  == Find(s, Marker, from)
    IN  SubSeq(s, from, IF nxt = 0 THEN Len(s) ELSE nxt - 1)

\* C2 as claimed: for an identifier containing the marker, the id put into the
\* catalog query is the whole remainder after the marker, trimmed, also when
\* the marker occurs more than once.
C2_WholeRemainder ==
    Contains(target, Marker) =>
        \A k \in 1..Len(gaia_queries) :
            gaia_queries[k] = Strip(RemainderAfterMarker(target))

\* C2 amended: for an identifier containing the marker, the id put into the
\* catalog query is the text between the first occurrence of the marker and
\* the next occurrence (or the end of the identifier), trimmed.
C2_UpToNextMarker ==
    Contains(target, Marker) =>
        \A k \in 1..Len(gaia_queries) :
            gaia_queries[k] = Strip(UpToNextMarker(target))

C2_Witness ==
    /\ Contains(target, Marker)
    /\ Len(gaia_queries) = 1
    /\ Contains(RemainderAfterMarker(target), Marker)
    /\ UpToNextMarker(target) # Strip(UpToNextMarker(target))

\* C3: for an identifier containing the marker, no name-resolution query is
\* issued at any point of the call.
C3_NoSimbadOnFastPath == Contains(target, Marker) => simbad_queries = <<>>

C3_Witness ==
    /\ Contains(target, Marker)
    /\ pc = "done"
    /\ ret.tag = "float"
    /\ simbad_queries = <<>>

\* C4 as claimed: when the identifier lacks the marker and no entry of the
\* alternate-identifier list contains it, get_bp_mag returns None whatever
\* the catalog answers.
C4_NoMatchReturnsNone == (pc = "done" /\ ScanFoundNothing) => ret = NoneVal

\* C8 as claimed: sys.stdout is the discard sink while query_object is in
\* progress and while the catalog job is in progress.
C8_SuppressedDuringBothCalls ==
    pc \in {"query_object", "launch_job_async", "get_results"} => stdout = DevNull

\* C8 amended: sys.stdout is the discard sink while the catalog job
\* (launch_job_async, get_results) is in progress; while query_object is in
\* progress it is the stream the caller had.
C8_SuppressedDuringCatalogJob ==
    /\ (pc \in {"launch_job_async", "get_results"} => stdout = DevNull)
    /\ (pc = "query_object" => stdout = caller_stdout)

C8_Witness == pc = "get_results" /\ stdout = DevNull /\ simbad_queries # <<>>

\* C9: on every exit path of get_bp_mag, sys.stdout after the call is the
\* stream it was before the call.
C9_StdoutRestored == pc = "done" => stdout = caller_stdout

C9_Witness ==
    /\ pc = "done"
    /\ failure = "launch_job_async"
    /\ old_stdout = caller_stdout
    /\ stdout = caller_stdout

\* C10 as claimed: when the scan finds no entry containing the marker, no
\* query is submitted to the catalog service in that call.
C10_NoQueryWithoutId == ScanFoundNothing => gaia_queries = <<>>

-----------------------------------------------------------------------------
\* Properties of const_add.py (checked under SpecImage)

\* C7 as claimed: the array written equals the array read plus 100, element
\* by element and without wrap-around, has the same shape, and the header
\* written is the header read.
C7_WrittenIsInputPlus100 ==
    img_pc = "written" =>
        /\ Shape(out_file.data) = Shape(file_data)
        /\ \A i \in 1..Len(file_data) : \A j \in 1..Len(file_data[i]) :
               out_file.data[i][j] = file_data[i][j] + 100
        /\ out_file.header = file_header

-----------------------------------------------------------------------------
\* Properties of get_aperture_noise (checked under SpecNoise)

\* C5 as claimed: moon illumination 25 and 75 both select the medium rate
\* (100), 24.999 selects the low rate (16), 74.999 the medium rate.
C5_MoonBoundariesBothMedium ==
    noise_pc = "done" =>
        /\ (moon_percentage = 25000 => selected.sky_background = 100)
        /\ (moon_percentage = 75000 => selected.sky_background = 100)
        /\ (moon_percentage = 24999 => selected.sky_background = 16)
        /\ (moon_percentage = 74999 => selected.sky_background = 100)

\* C5 amended: moon illumination 25 selects the medium rate (100) and 75
\* selects the high rate (300); 24.999 selects the low rate (16), 74.999 the
\* medium rate.
C5_MoonBoundaries ==
    noise_pc = "done" =>
        /\ (moon_percentage = 25000 => selected.sky_background = 100)
        /\ (moon_percentage = 75000 => selected.sky_background = 300)
        /\ (moon_percentage = 24999 => selected.sky_background = 16)
        /\ (moon_percentage = 74999 => selected.sky_background = 100)

C5_Witness ==
    noise_pc = "done" /\ moon_percentage = 75000 /\ selected.sky_background = 300

\* C6: magnitude < 14 selects (20 px, 24.3), 14 <= magnitude < 18 selects
\* (10 px, 24), magnitude >= 18 selects (5 px, 23.7).
C6_ApertureByMagnitude ==
    noise_pc = "done" =>
        /\ (bp_mag < 14000 =>
               selected.aperture_size = 20 /\ selected.zp = 24300)
        /\ (14000 <= bp_mag /\ bp_mag < 18000 =>
               selected.aperture_size = 10 /\ selected.zp = 24000)
        /\ (bp_mag >= 18000 =>
               selected.aperture_size = 5 /\ selected.zp = 23700)

C6_Witness ==
    noise_pc = "done" /\ bp_mag = 14000 /\ selected.aperture_size = 10

====
